---- MODULE Spec2Model ----
(***************************************************************************)
(* Model of the Date Grid container engine of the node editor:             *)
(*   windows/node/date_grid_node.py  DateGridNode                          *)
(*   windows/node/base_nodes.py      ToolBaseNode.set_pos                  *)
(*   windows/node_graph.py           NodeGraphWidget._on_graph_property_changed *)
(* Geometry is kept in integers; the only fractional quantity of the code, *)
(* rect["w"] * 0.5, is compared after multiplying both sides by two.       *)
(***************************************************************************)
EXTENDS Integers, Sequences, FiniteSets, TLC

\* ------------------------------------------------------------------------
\* Class constants of DateGridNode
\* ------------------------------------------------------------------------
SNAP_AREA_HEIGHT == 40
MIN_HEIGHT == 120
V_SPACING == 10
H_MARGIN == 10
\* header height assumed by _is_in_snap_area (ny + 30.0)
HEADER_OFFSET == 30
\* width given to a DateGridNode by __init__
INIT_GRID_WIDTH == 220

\* ------------------------------------------------------------------------
\* The graphs explored: Date Grid nodes and ordinary nodes.  One graph has
\* two grids and the nodes N1, N2; the other has grid D1 and three nodes of
\* view heights 40, 60 and 50 (N1, N3, N4).
\* ------------------------------------------------------------------------
DateNodes == {"D1", "D2"}
Ordinary == {"N1", "N2", "N3", "N4"}
Nodes == DateNodes \cup Ordinary
None == "None"

\* order in which graph.all_nodes() enumerates the nodes (creation order)
NodeOrder == <<"D1", "D2", "N1", "N2", "N3", "N4">>

\* node.view.height of the ordinary nodes
ViewHeight == [n \in Ordinary |-> IF n = "N1" THEN 40 ELSE IF n = "N2" THEN 80
                                  ELSE IF n = "N3" THEN 60 ELSE 50]
\* width of the ordinary nodes when they are created
InitWidth == [n \in Ordinary |-> IF n = "N1" THEN 60 ELSE IF n = "N2" THEN 100
                                 ELSE IF n = "N3" THEN 20 ELSE 120]

Pt(x, y) == [x |-> x, y |-> y]
\* positions at which the host drops an ordinary node: on the snap area of
\* a grid at the origin, on that of a grid at x = 300, and away from both
NodeDropPos == {Pt(0, 0), Pt(300, 0), Pt(0, 200)}
\* positions at which the host drops a Date Grid node
GridDropPos == {Pt(0, 0), Pt(300, 0)}
DropPos(n) == IF n \in {"D1", "D2"} THEN GridDropPos ELSE NodeDropPos
\* the nodes the host moves; grid D1 and the nodes N3, N4, created at the
\* origin, stay where they were created
Movable == {"D2", "N1", "N2"}
InitPos == [n \in Nodes |-> IF n \in {"D1", "N3", "N4"} THEN Pt(0, 0)
                            ELSE IF n = "D2" THEN Pt(300, 0)
                            ELSE Pt(0, 200)]

\* the nodes the host may delete
Deletable == {"N2", "N4"}

\* a node's width is normalised by at most MaxShrink layout passes
MaxShrink == 3

\* the nodes created in the graph with two grids
TwoGridGraph == {"D1", "D2", "N1", "N2"}
\* the nodes created in the graph of the three-member scenario
ScenarioDGraph == {"D1", "N1", "N3", "N4"}

VARIABLES
    live,            \* ids that graph.get_node_by_id resolves
    pos,             \* node.pos()
    width,           \* property "width"
    height,          \* property "height" of the Date Grid nodes
    snap_nodes,      \* property "snap_nodes" of the Date Grid nodes
    note,            \* property "note" of the Date Grid nodes
    kdm_snapping,    \* attribute _kdm_snapping read by ToolBaseNode.set_pos
    pc,              \* position inside the running call, "idle" between calls
    moved,           \* handle_node_moved: moved_node
    current_parent,  \* handle_node_moved: current_parent
    target_parent,   \* handle_node_moved: target_parent
    grid,            \* _layout_snapped_nodes: self
    ret,             \* where the caller of _layout_snapped_nodes continues
    todo,            \* _layout_snapped_nodes: members still to be placed
    current_y,       \* _layout_snapped_nodes: current_y
    max_bottom,      \* _layout_snapped_nodes: max_bottom
    raised,          \* the last call left through an exception
    call,            \* history: the last call made by the host
    before,          \* history: properties when the last call started
    passes           \* history: layout passes completed inside the last call

vars == <<live, pos, width, height, snap_nodes, note, kdm_snapping, pc, moved,
          current_parent, target_parent, grid, ret, todo, current_y,
          max_bottom, raised, call, before, passes>>

props == <<pos, width, height, snap_nodes, note>>
locals == <<moved, current_parent, target_parent>>
layout_locals == <<grid, ret, todo, current_y, max_bottom>>
history == <<call, before, passes>>

\* ------------------------------------------------------------------------
\* Helpers
\* ------------------------------------------------------------------------
Max(a, b) == IF a >= b THEN a ELSE b

InSeq(e, s) == \E i \in 1..Len(s) : s[i] = e

\* for x in s: if x in S: break -- the first element of s that is in S, or None
FirstIn(s, S) ==
    IF \E i \in 1..Len(s) : s[i] \in S
    THEN s[CHOOSE i \in 1..Len(s) :
               s[i] \in S /\ \A j \in 1..(i - 1) : s[j] \notin S]
    ELSE None

\* a call record: the operation, its node, and whether the same call was
\* the one made just before it
CallOf(op, n) ==
    [op |-> op, node |-> n, repeated |-> (call.op = op /\ call.node = n)]
NoCall == [op |-> "none", node |-> None, repeated |-> FALSE]
HostCall(op) == [op |-> op, node |-> None, repeated |-> FALSE]
\* the frame of handle_node_moved is gone
ResetLocals == moved' = None /\ current_parent' = None /\ target_parent' = None
\* the frame of _layout_snapped_nodes is gone
ResetLayoutLocals ==
    /\ grid' = None /\ ret' = "idle" /\ todo' = <<>>
    /\ current_y' = 0 /\ max_bottom' = 0
NoSnapshot == [taken |-> FALSE]
Snapshot == [taken |-> TRUE, pos |-> pos, width |-> width, height |-> height,
             snap_nodes |-> snap_nodes, note |-> note]

\* isinstance(n, DateGridNode)
IsDateGridNode(n) == n \in DateNodes
\* isinstance(n, ToolBaseNode): every node class of the tool derives from it
IsToolBaseNode(n) == n \in Nodes

\* graph.all_nodes()
all_nodes == SelectSeq(NodeOrder, LAMBDA n : n \in live)
\* graph.get_node_by_id(nid)
get_node_by_id(nid) == IF nid \in live THEN nid ELSE None

\* the note text of an empty grid
NoteNone == [none |-> TRUE, lines |-> <<>>]

RECURSIVE NoteLines(_, _)
NoteLines(ids, i) ==
    IF i > Len(ids) THEN <<>>
    ELSE IF get_node_by_id(ids[i]) = None THEN NoteLines(ids, i + 1)
    ELSE <<<<i, ids[i]>>>> \o NoteLines(ids, i + 1)

\* _update_note_from_snap_ids: the text built from a list of ids
NoteFromSnapIds(ids) ==
    IF ids = <<>> THEN NoteNone ELSE [none |-> FALSE, lines |-> NoteLines(ids, 1)]

\* _is_in_snap_area
IsInSnapArea_XOnly(dn, node) ==
    LET rx == pos[dn].x
        rw == width[dn]
        cx2 == 2 * pos[node].x + rw
    IN  2 * rx <= cx2 /\ cx2 <= 2 * (rx + rw)
IsInSnapArea(dn, node) ==
    LET rx == pos[dn].x
        ry == pos[dn].y
        rw == width[dn]
        cx2 == 2 * pos[node].x + rw
        cy == pos[node].y + HEADER_OFFSET
    IN  /\ 2 * rx <= cx2 /\ cx2 <= 2 * (rx + rw)
        /\ ry <= cy /\ cy <= ry + SNAP_AREA_HEIGHT

\* list.remove(x): drops the first occurrence of x
RemoveId(ids, id) ==
    IF InSeq(id, ids)
    THEN LET i == CHOOSE k \in 1..Len(ids) :
                      ids[k] = id /\ \A j \in 1..(k - 1) : ids[j] # id
         IN  SubSeq(ids, 1, i - 1) \o SubSeq(ids, i + 1, Len(ids))
    ELSE ids

\* the two isinstance(moved_node, DateGridNode) tests of handle_node_moved
MovedIsDateGrid_Never(m) == FALSE
MovedIsDateGrid(m) == IsDateGridNode(m)

\* nodes.sort(key=lambda n: n.pos()[1]): stable, ascending in y
RECURSIVE InsertByY(_, _)
InsertByY(n, s) ==
    IF s = <<>> THEN <<n>>
    ELSE IF pos[n].y < pos[Head(s)].y THEN <<n>> \o s
    ELSE <<Head(s)>> \o InsertByY(n, Tail(s))

RECURSIVE SortByY(_)
SortByY(s) ==
    IF s = <<>> THEN <<>>
    ELSE InsertByY(s[Len(s)], SortByY(SubSeq(s, 1, Len(s) - 1)))

\* the members _layout_snapped_nodes keeps: live, ordinary tool nodes
LiveMembers_All(ids) ==
    SelectSeq(NodeOrder, LAMBDA nid : /\ get_node_by_id(nid) # None
                                      /\ ~IsDateGridNode(nid))
LiveMembers(ids) ==
    SelectSeq(ids, LAMBDA nid : /\ get_node_by_id(nid) # None
                                /\ ~IsDateGridNode(nid)
                                /\ IsToolBaseNode(nid))

\* self._set_snap_ids([]): the list written when no listed node is left
ClearedIds_Kept(ids) == ids
ClearedIds(ids) == <<>>

\* the height an empty grid is given back: float(self.MIN_HEIGHT)
EmptyHeight_SnapAreaOnly == SNAP_AREA_HEIGHT
EmptyHeight == MIN_HEIGHT

\* the host keeps delivering calls while no width was normalised too often
WithinBounds ==
    \A n \in Ordinary : width[n] > InitWidth[n] - MaxShrink * 2 * H_MARGIN

\* ------------------------------------------------------------------------
\* Initial state: DateGridNode.__init__ and freshly created ordinary nodes
\* ------------------------------------------------------------------------
InitGraph(created) ==
    /\ live = created
    /\ pos = InitPos
    /\ width = [n \in Nodes |-> IF n \in DateNodes THEN INIT_GRID_WIDTH
                                ELSE InitWidth[n]]
    /\ height = [d \in DateNodes |-> MIN_HEIGHT]
    /\ snap_nodes = [d \in DateNodes |-> <<>>]
    /\ note = [d \in DateNodes |-> NoteNone]
    /\ kdm_snapping = [n \in Nodes |-> FALSE]
    /\ pc = "idle"
    /\ moved = None
    /\ current_parent = None
    /\ target_parent = None
    /\ grid = None
    /\ ret = "idle"
    /\ todo = <<>>
    /\ current_y = 0
    /\ max_bottom = 0
    /\ raised = FALSE
    /\ call = NoCall
    /\ before = NoSnapshot
    /\ passes = <<>>

Init == InitGraph(TwoGridGraph)
InitD == InitGraph(ScenarioDGraph)

\* ------------------------------------------------------------------------
\* Host operations
\* ------------------------------------------------------------------------
\* The host commits a new position of node n and the graph emits
\* property_changed(n, "pos", p).  The handler delegates to
\* DateGridNode.on_node_moved, a name the class does not define: the
\* AttributeError is caught and printed, and nothing else happens.
OnGraphPropertyChangedPos(n, p) ==
    /\ pc = "idle"
    /\ n \in live \cap Movable
    /\ p # pos[n]
    /\ pos' = [pos EXCEPT ![n] = p]
    /\ raised' = FALSE
    /\ call' = HostCall("property_changed_pos")
    /\ before' = NoSnapshot
    /\ passes' = <<>>
    /\ ResetLocals
    /\ UNCHANGED <<live, width, height, snap_nodes, note, kdm_snapping, pc>>
    /\ UNCHANGED layout_locals

\* if prop_name != "pos": return -- the names the handler passes on
NotifiesDateGrid_Always(prop_name) == TRUE
NotifiesDateGrid(prop_name) == prop_name = "pos"

\* properties other than "pos" whose change the graph reports
OtherProps == {"width", "snap_nodes"}

\* The graph emits property_changed(n, name, value) for a property other
\* than "pos" whose value is the one the node already has.  The handler
\* returns at the name test; past it, it would delegate to
\* DateGridNode.on_node_moved and print the AttributeError.
OnGraphPropertyChangedOther(n, name) ==
    /\ pc = "idle"
    /\ n \in live
    /\ raised' = FALSE
    /\ call' = HostCall(IF NotifiesDateGrid(name) THEN "property_changed_delegated"
                        ELSE "property_changed_other")
    /\ before' = Snapshot
    /\ passes' = <<>>
    /\ ResetLocals
    /\ UNCHANGED <<live, props, kdm_snapping, pc, layout_locals>>

\* The host deletes an ordinary node from the graph.
DeleteNode(n) ==
    /\ pc = "idle"
    /\ n \in live \cap Deletable
    /\ live' = live \ {n}
    /\ raised' = FALSE
    /\ call' = HostCall("delete_node")
    /\ before' = NoSnapshot
    /\ passes' = <<>>
    /\ ResetLocals
    /\ UNCHANGED <<props, kdm_snapping, pc, layout_locals>>

\* ------------------------------------------------------------------------
\* DateGridNode.handle_node_moved(graph, moved_node)
\* ------------------------------------------------------------------------
\* date_nodes: the DateGridNode instances among graph.all_nodes()
date_nodes == SelectSeq(all_nodes, IsDateGridNode)

\* current_parent: the first grid whose snap_nodes lists the id
CurrentParentOf_Forgets(m) == None
CurrentParentOf(m) ==
    FirstIn(date_nodes, {dn \in DateNodes : InSeq(m, snap_nodes[dn])})

\* target_parent: the first grid whose snap area holds the node
TargetParentOf(m) ==
    FirstIn(date_nodes, {dn \in DateNodes : IsInSnapArea(dn, m)})

\* if graph is None or moved_node is None: return
InvalidInput_Never(graph, m) == FALSE
InvalidInput(graph, m) == graph = None \/ m = None

\* the (graph, moved_node) pairs a caller passes: the graph with a node or
\* without one, and no graph with a node or without one
CallInputs ==
    {<<"graph", m>> : m \in Nodes \cup {None}} \cup {<<None, None>>, <<None, "D1">>}

\* Entry of the call, up to the choice of the branch.  A call with a null
\* graph or node is recorded as "handle_node_moved_invalid".  Past the null
\* test, graph.all_nodes() on a null graph raises AttributeError.
HandleNodeMoved(graph, m) ==
    /\ pc = "idle"
    /\ m \in live \cup {None}
    /\ WithinBounds
    /\ raised' = (~InvalidInput(graph, m) /\ graph = None)
    /\ call' = IF graph = None \/ m = None
               THEN HostCall("handle_node_moved_invalid")
               ELSE CallOf("handle_node_moved", m)
    /\ before' = Snapshot
    /\ passes' = <<>>
    /\ moved' = IF graph = None THEN None ELSE m
    /\ IF InvalidInput(graph, m) \/ graph = None
       THEN /\ pc' = "idle"
            /\ current_parent' = None
            /\ target_parent' = None
            /\ UNCHANGED <<grid, ret>>
       ELSE IF date_nodes = <<>>
       THEN /\ pc' = "idle"
            /\ current_parent' = None
            /\ target_parent' = None
            /\ UNCHANGED <<grid, ret>>
       ELSE IF MovedIsDateGrid(m)
       THEN /\ pc' = "layout"
            /\ grid' = m
            /\ ret' = "idle"
            /\ current_parent' = None
            /\ target_parent' = None
       ELSE IF ~IsToolBaseNode(m) \/ MovedIsDateGrid(m)
       THEN /\ pc' = "idle"
            /\ current_parent' = None
            /\ target_parent' = None
            /\ UNCHANGED <<grid, ret>>
       ELSE /\ current_parent' = CurrentParentOf(m)
            /\ target_parent' = TargetParentOf(m)
            /\ UNCHANGED <<grid, ret>>
            /\ pc' = IF target_parent' = None
                     THEN (IF current_parent' # None THEN "hnm_remove" ELSE "idle")
                     ELSE (IF current_parent' # None /\ current_parent' # target_parent'
                           THEN "hnm_remove" ELSE "hnm_register")
    /\ UNCHANGED <<live, props, kdm_snapping, todo, current_y, max_bottom>>

\* ids.remove(moved_id); current_parent._set_snap_ids(ids); then the
\* layout of current_parent is entered.
HnmRemove ==
    /\ pc = "hnm_remove"
    /\ LET ids == snap_nodes[current_parent]
           new == IF InSeq(moved, ids) THEN RemoveId(ids, moved) ELSE ids
       IN  IF InSeq(moved, ids)
           THEN /\ snap_nodes' = [snap_nodes EXCEPT ![current_parent] = new]
                /\ note' = [note EXCEPT ![current_parent] = NoteFromSnapIds(new)]
                /\ pc' = "layout"
                /\ grid' = current_parent
                /\ ret' = IF target_parent = None THEN "idle" ELSE "hnm_register"
           ELSE /\ pc' = IF target_parent = None THEN "idle" ELSE "hnm_register"
                /\ UNCHANGED <<snap_nodes, note, grid, ret>>
    /\ UNCHANGED <<live, pos, width, height, kdm_snapping, locals, todo,
                   current_y, max_bottom, raised, history>>

\* registration with target_parent; then its layout is entered.
HnmRegister ==
    /\ pc = "hnm_register"
    /\ LET ids == snap_nodes[target_parent]
           new == Append(ids, moved)
       IN  IF ~InSeq(moved, ids)
           THEN /\ snap_nodes' = [snap_nodes EXCEPT ![target_parent] = new]
                /\ note' = [note EXCEPT ![target_parent] = NoteFromSnapIds(new)]
           ELSE UNCHANGED <<snap_nodes, note>>
    /\ pc' = "layout"
    /\ grid' = target_parent
    /\ ret' = "idle"
    /\ UNCHANGED <<live, pos, width, height, kdm_snapping, locals, todo,
                   current_y, max_bottom, raised, history>>

\* ------------------------------------------------------------------------
\* DateGridNode._layout_snapped_nodes(self)
\* ------------------------------------------------------------------------
\* From the entry to the start of the placement loop.
LayoutBegin ==
    /\ pc = "layout"
    /\ LET ids == snap_nodes[grid]
           nodes == SortByY(LiveMembers(ids))
       IN  IF ids = <<>>
           THEN /\ height' = [height EXCEPT ![grid] = EmptyHeight]
                /\ note' = [note EXCEPT ![grid] = NoteFromSnapIds(ids)]
                /\ passes' = Append(passes, grid)
                /\ pc' = ret
                /\ ResetLayoutLocals
                /\ UNCHANGED <<width, snap_nodes>>
           ELSE IF nodes = <<>>
           THEN /\ snap_nodes' = [snap_nodes EXCEPT ![grid] = ClearedIds(ids)]
                /\ note' = [note EXCEPT ![grid] = NoteFromSnapIds(ClearedIds(ids))]
                /\ passes' = Append(passes, grid)
                /\ pc' = ret
                /\ ResetLayoutLocals
                /\ UNCHANGED <<width, height>>
           ELSE /\ width' = [width EXCEPT ![grid] = width[Head(nodes)]]
                /\ todo' = nodes
                /\ current_y' = pos[grid].y + SNAP_AREA_HEIGHT + V_SPACING
                /\ max_bottom' = current_y'
                /\ pc' = "lay_member"
                /\ UNCHANGED <<height, snap_nodes, note, passes, grid, ret>>
    /\ UNCHANGED <<live, pos, kdm_snapping, locals, raised, call, before>>

\* One member: its width is set, then node.set_pos(target_x, current_y)
\* writes the position through the base class.  The graph emits
\* property_changed(node, "pos", ...), which the host handler swallows.
LayoutPlaceMember ==
    /\ pc = "lay_member"
    /\ LET node == Head(todo)
       IN  /\ width' = [width EXCEPT ![node] = width[grid] - H_MARGIN * 2]
           /\ pos' = [pos EXCEPT ![node] = Pt(pos[grid].x + H_MARGIN, current_y)]
    /\ pc' = "set_pos_hook"
    /\ UNCHANGED <<live, height, snap_nodes, note, kdm_snapping, locals,
                   layout_locals, raised, history>>

\* set_pos notifying the grid, and the grid placing the member again
SetPosHook_Renotifies ==
    /\ pc = "set_pos_hook"
    /\ pc' = "lay_member"
    /\ UNCHANGED <<live, props, kdm_snapping, locals, layout_locals, raised,
                   history>>

\* The rest of ToolBaseNode.set_pos.  With _kdm_snapping set it returns and
\* the loop goes on (and, after the last member, the pass ends).  Otherwise
\* it calls DateGridNode.on_node_moved, which does not exist: the
\* AttributeError leaves set_pos, the layout pass and the running call.
SetPosHook ==
    /\ pc = "set_pos_hook"
    /\ LET node == Head(todo)
           nh == ViewHeight[node]
           cy == current_y + nh + V_SPACING
           mb == Max(max_bottom, cy)
       IN  IF kdm_snapping[node]
           THEN /\ raised' = raised
                /\ IF Tail(todo) = <<>>
                   THEN /\ height' = [height EXCEPT ![grid] =
                                Max(MIN_HEIGHT, mb - pos[grid].y + V_SPACING)]
                        /\ note' = [note EXCEPT ![grid] =
                                NoteFromSnapIds(snap_nodes[grid])]
                        /\ passes' = Append(passes, grid)
                        /\ pc' = ret
                        /\ ResetLayoutLocals
                   ELSE /\ current_y' = cy
                        /\ max_bottom' = mb
                        /\ todo' = Tail(todo)
                        /\ pc' = "lay_member"
                        /\ UNCHANGED <<height, note, passes, grid, ret>>
           ELSE /\ raised' = TRUE
                /\ pc' = "idle"
                /\ ResetLayoutLocals
                /\ UNCHANGED <<height, note, passes>>
    /\ UNCHANGED <<live, pos, width, snap_nodes, kdm_snapping, locals, call,
                   before>>

Next ==
    \/ \E n \in Nodes : \E p \in DropPos(n) : OnGraphPropertyChangedPos(n, p)
    \/ \E n \in Nodes : DeleteNode(n)
    \/ \E n \in DateNodes : \E name \in OtherProps :
           OnGraphPropertyChangedOther(n, name)
    \/ \E ci \in CallInputs : HandleNodeMoved(ci[1], ci[2])
    \/ HnmRemove
    \/ HnmRegister
    \/ LayoutBegin
    \/ LayoutPlaceMember
    \/ SetPosHook

Spec == Init /\ [][Next]_vars
\* the same program on the graph of the three-member scenario
SpecD == InitD /\ [][Next]_vars

\* a running call goes on: its steps are the statements of one Python call
CallRuns ==
    /\ WF_vars(HnmRemove) /\ WF_vars(HnmRegister) /\ WF_vars(LayoutBegin)
    /\ WF_vars(LayoutPlaceMember) /\ WF_vars(SetPosHook)
FairSpecD == SpecD /\ CallRuns

TypeOK ==
    /\ live \subseteq Nodes
    /\ pc \in {"idle", "hnm_remove", "hnm_register", "layout", "lay_member",
               "set_pos_hook"}
    /\ \A d \in DateNodes : \A i \in 1..Len(snap_nodes[d]) : snap_nodes[d][i] \in Nodes

\* ------------------------------------------------------------------------
\* Vocabulary of the properties
\* ------------------------------------------------------------------------
\* the grids whose member list holds the id
Owners(n) == {d \in DateNodes : InSeq(n, snap_nodes[d])}

\* a call of handle_node_moved has returned or was left by an exception
AfterEvent == pc = "idle" /\ call.op = "handle_node_moved"
AfterNodeEvent == AfterEvent /\ call.node \in Ordinary
AfterGridEvent == AfterEvent /\ call.node \in DateNodes

\* the properties are as they were when the call started
SameAsBefore ==
    /\ pos = before.pos /\ width = before.width /\ height = before.height
    /\ snap_nodes = before.snap_nodes

\* the grids whose member list held the id when the call started
OwnersBefore(n) == {d \in DateNodes : InSeq(n, before.snap_nodes[d])}

\* _is_in_snap_area, evaluated on the properties at the start of the call
WasInSnapArea(dn, node) ==
    LET rx == before.pos[dn].x
        ry == before.pos[dn].y
        rw == before.width[dn]
        cx2 == 2 * before.pos[node].x + rw
        cy == before.pos[node].y + HEADER_OFFSET
    IN  /\ 2 * rx <= cx2 /\ cx2 <= 2 * (rx + rw)
        /\ ry <= cy /\ cy <= ry + SNAP_AREA_HEIGHT

\* the live grids whose snap area held the node when the call started
SnapAreasBefore(n) == {d \in DateNodes \cap live : WasInSnapArea(d, n)}

\* the nodes of s stand below each other from (x, y) downwards
RECURSIVE StackedFrom(_, _, _)
StackedFrom(s, x, y) ==
    \/ s = <<>>
    \/ /\ pos[Head(s)] = Pt(x, y)
       /\ StackedFrom(Tail(s), x, y + ViewHeight[Head(s)] + V_SPACING)

\* the live members of grid d are stacked below its snap area
IsStacked(d) ==
    StackedFrom(SortByY(LiveMembers(snap_nodes[d])),
                pos[d].x + H_MARGIN, pos[d].y + SNAP_AREA_HEIGHT + V_SPACING)

\* the grids the last call moved, removed a member from or registered one with
EventGrids == (DateNodes \cap live) \cap {call.node, current_parent, target_parent}

\* the node names a note lists, in the order of its lines
NoteNames(d) == [k \in 1..Len(note[d].lines) |-> note[d].lines[k][2]]

\* the head of the list s sorted (stably) by the y the nodes had when the
\* call started
FirstByYBefore(s) ==
    s[CHOOSE i \in 1..Len(s) :
          /\ \A j \in 1..Len(s) : before.pos[s[i]].y <= before.pos[s[j]].y
          /\ \A j \in 1..(i - 1) : before.pos[s[j]].y > before.pos[s[i]].y]

\* the snap test with the node's own horizontal centre, on the properties
\* at the start of the call
CentreWasInSnapArea(dn, node) ==
    LET rx == before.pos[dn].x
        ry == before.pos[dn].y
        rw == before.width[dn]
        cx2 == 2 * before.pos[node].x + before.width[node]
        cy == before.pos[node].y + HEADER_OFFSET
    IN  /\ 2 * rx <= cx2 /\ cx2 <= 2 * (rx + rw)
        /\ ry <= cy /\ cy <= ry + SNAP_AREA_HEIGHT

RECURSIVE SumHeights(_)
SumHeights(s) ==
    IF s = <<>> THEN 0 ELSE ViewHeight[Head(s)] + V_SPACING + SumHeights(Tail(s))

\* the height that fits the live members of grid d: the cursor starts at
\* SNAP_AREA_HEIGHT + V_SPACING, advances by height + V_SPACING per member,
\* and V_SPACING is added as bottom padding
FittedHeight(d) ==
    IF LiveMembers(snap_nodes[d]) = <<>> THEN MIN_HEIGHT
    ELSE Max(MIN_HEIGHT, SNAP_AREA_HEIGHT + V_SPACING
                         + SumHeights(LiveMembers(snap_nodes[d])) + V_SPACING)

\* ------------------------------------------------------------------------
\* C1: in every state, also inside the handling of an event, each ordinary
\* node id is in the member list of at most one grid.
C1_ExclusiveOwnership ==
    \A n \in Ordinary : Cardinality(Owners(n)) <= 1

\* a member of D1 was moved onto the snap area of D2 and now belongs to D2
C1_Witness ==
    /\ AfterNodeEvent
    /\ current_parent = "D1" /\ target_parent = "D2"
    /\ InSeq(moved, snap_nodes["D2"])

\* C2: no member list ever holds the id of a Date Grid node; a grid moved
\* onto the snap area of another grid (or its own) is not registered.
C2_NoNesting ==
    \A d \in DateNodes : \A i \in 1..Len(snap_nodes[d]) :
        snap_nodes[d][i] \notin DateNodes

\* the event of grid D2 was handled while D2 lay on the snap area of D1
C2_Witness ==
    /\ AfterGridEvent
    /\ call.node = "D2"
    /\ IsInSnapArea("D1", "D2")

\* C3: a "pos" change reported by the graph for an unowned ordinary node
\* that lies on the snap area of a grid makes the node a member of the
\* first such grid.
C3_PosChangeReachesResolver ==
    [][\A n \in Ordinary : \A d \in DateNodes :
          ( /\ \E p \in DropPos(n) : OnGraphPropertyChangedPos(n, p)
            /\ Owners(n) = {}
            /\ (TargetParentOf(n) = d)' )
          => InSeq(n, snap_nodes'[d])]_vars

\* C4: while the layout pass has written a member's position and set_pos
\* decides about the notification, the member's suppression flag is set;
\* between calls no flag is left set.
C4_SuppressedDuringLayout ==
    /\ pc = "set_pos_hook" => kdm_snapping[Head(todo)]
    /\ pc = "idle" => \A n \in Nodes : ~kdm_snapping[n]

\* C5: a second layout pass of the same grid, made right after the first,
\* leaves positions, widths, heights and member lists as the first left them.
C5_LayoutIdempotent ==
    (AfterGridEvent /\ call.repeated) => SameAsBefore

\* C6: a second delivery of the event of the same ordinary node, made right
\* after the first, leaves member lists and geometry as the first left them.
C6_RepeatedDeliverySafe ==
    (AfterNodeEvent /\ call.repeated) => SameAsBefore

\* C7: a layout pass of a grid whose member list held an id that no longer
\* resolves ends without an exception and with no such id in the list.
C7_StaleCleanup ==
    ( /\ AfterGridEvent
      /\ \E i \in 1..Len(before.snap_nodes[call.node]) :
             before.snap_nodes[call.node][i] \notin live )
    => /\ ~raised
       /\ \A i \in 1..Len(snap_nodes[call.node]) :
              snap_nodes[call.node][i] \in live

\* C8: an unowned ordinary node moved onto the snap area of a grid without
\* members is registered there, placed at (x + H_MARGIN,
\* y + SNAP_AREA_HEIGHT + V_SPACING), and the grid gets the fitted height.
C8_Adoption ==
    ( /\ AfterNodeEvent
      /\ current_parent = None /\ target_parent \in DateNodes
      /\ before.snap_nodes[target_parent] = <<>> )
    => /\ InSeq(moved, snap_nodes[target_parent])
       /\ pos[moved] = Pt(pos[target_parent].x + H_MARGIN,
                          pos[target_parent].y + SNAP_AREA_HEIGHT + V_SPACING)
       /\ height[target_parent] =
              Max(MIN_HEIGHT, SNAP_AREA_HEIGHT + V_SPACING
                              + ViewHeight[moved] + V_SPACING + V_SPACING)

\* C9: a member of grid A moved onto the snap area of another grid B ends
\* outside A's list and inside B's, after a completed layout pass of A
\* followed by one of B; when B registers it, A has already dropped it and
\* has been laid out.
C9_Transfer ==
    LET transfer == /\ call.op = "handle_node_moved" /\ call.node \in Ordinary
                    /\ current_parent \in DateNodes
                    /\ target_parent \in DateNodes
                    /\ current_parent # target_parent
    IN  /\ (transfer /\ pc = "hnm_register")
             => /\ ~InSeq(moved, snap_nodes[current_parent])
                /\ passes = <<current_parent>>
        /\ (transfer /\ pc = "idle")
             => /\ ~InSeq(moved, snap_nodes[current_parent])
                /\ InSeq(moved, snap_nodes[target_parent])
                /\ passes = <<current_parent, target_parent>>

\* C10: a member of grid A moved off every snap area ends in no member
\* list, A has completed a layout pass and has the height fitting the
\* members that remain, and the node is where the host put it.
C10_Release ==
    ( /\ AfterNodeEvent
      /\ current_parent \in DateNodes /\ target_parent = None )
    => /\ Owners(moved) = {}
       /\ passes = <<current_parent>>
       /\ height[current_parent] = FittedHeight(current_parent)
       /\ pos[moved] = before.pos[moved]

\* C11: a member dropped above another member of its grid is still a member
\* after its event and then lies above (has a smaller y than) that member.
C11_ReorderByDrag ==
    \A d \in DateNodes : \A o \in Ordinary :
        ( /\ AfterNodeEvent
          /\ o # moved /\ o \in live
          /\ InSeq(moved, before.snap_nodes[d])
          /\ InSeq(o, before.snap_nodes[d])
          /\ before.pos[moved].y < before.pos[o].y )
        => /\ InSeq(moved, snap_nodes[d])
           /\ pos[moved].y < pos[o].y

\* C12: after a layout pass of a grid, the ids stored in its member list are
\* in ascending order of the y position of their nodes.
C12_StoredOrderFollowsY ==
    AfterGridEvent =>
        LET ids == snap_nodes[call.node]
        IN  \A i \in 1..(Len(ids) - 1) :
                (ids[i] \in live /\ ids[i + 1] \in live)
                => pos[ids[i]].y <= pos[ids[i + 1]].y

\* C13: in every state the height of every grid is at least MIN_HEIGHT.
C13_MinimumHeight ==
    \A d \in DateNodes : height[d] >= MIN_HEIGHT

\* a layout pass ran on a grid holding a member whose fitted height is
\* above MIN_HEIGHT
C13_Witness ==
    /\ AfterGridEvent
    /\ \E i \in 1..Len(snap_nodes[call.node]) :
           /\ snap_nodes[call.node][i] \in live
           /\ SNAP_AREA_HEIGHT + 3 * V_SPACING
                  + ViewHeight[snap_nodes[call.node][i]] > MIN_HEIGHT

\* C14: after a layout pass over one or more live members the height of the
\* grid is max(MIN_HEIGHT, cursor end - top + V_SPACING), and so at least
\* SNAP_AREA_HEIGHT plus every member height plus one V_SPACING per member.
C14_HeightFitsContent ==
    (AfterGridEvent /\ LiveMembers(snap_nodes[call.node]) # <<>>)
    => /\ height[call.node] = FittedHeight(call.node)
       /\ height[call.node] >=
              SNAP_AREA_HEIGHT + SumHeights(LiveMembers(snap_nodes[call.node]))

\* C15: for a grid with three members of heights 40, 60 and 50, after its
\* layout each member's y exceeds the previous member's y by that member's
\* height plus V_SPACING, and the grid's height is exactly
\* SNAP_AREA_HEIGHT + (40 + 60 + 50) + 3 * V_SPACING.
C15_ScenarioD ==
    LET g == call.node
    IN  ( /\ AfterGridEvent
          /\ Len(LiveMembers(snap_nodes[g])) = 3
          /\ \A n \in {"N1", "N3", "N4"} : InSeq(n, LiveMembers(snap_nodes[g])) )
        => LET s == SortByY(LiveMembers(snap_nodes[g]))
           IN  /\ \A k \in 1..2 :
                      pos[s[k + 1]].y = pos[s[k]].y + ViewHeight[s[k]] + V_SPACING
               /\ height[g] = SNAP_AREA_HEIGHT + SumHeights(s)

\* C16: when the moved node is a grid, no live node enters or leaves any
\* member list, nothing of the other grids or of nodes that are not members
\* of the moved grid changes, and the members of the moved grid end stacked
\* below its snap area at its new origin.
C16_ContainerMove ==
    AfterGridEvent =>
        LET g == call.node
        IN  /\ \A d \in DateNodes :
                   LiveMembers(snap_nodes[d]) = LiveMembers(before.snap_nodes[d])
            /\ \A d \in DateNodes \ {g} :
                   /\ pos[d] = before.pos[d] /\ width[d] = before.width[d]
                   /\ height[d] = before.height[d] /\ note[d] = before.note[d]
            /\ \A n \in Ordinary :
                   ~InSeq(n, snap_nodes[g])
                   => pos[n] = before.pos[n] /\ width[n] = before.width[n]
            /\ IsStacked(g)

\* C17: when the snap areas of two or more grids hold the moved node's
\* reference point, the node ends as a member of the first of them in the
\* enumeration order of the graph and of no other grid.
C17_TieBreak ==
    (AfterNodeEvent /\ Cardinality(SnapAreasBefore(call.node)) >= 2)
    => Owners(call.node) = {FirstIn(date_nodes, SnapAreasBefore(call.node))}

\* C18: an event for an ordinary node that no grid owns and that lies in no
\* grid's snap area changes no member list, width, height, note or position.
C18_UnrelatedMoveNoOp ==
    ( /\ AfterNodeEvent
      /\ OwnersBefore(call.node) = {}
      /\ SnapAreasBefore(call.node) = {} )
    => SameAsBefore /\ note = before.note

C18_Witness ==
    /\ AfterNodeEvent
    /\ OwnersBefore(call.node) = {}
    /\ SnapAreasBefore(call.node) = {}
    /\ \E d \in DateNodes : LiveMembers(snap_nodes[d]) # <<>>

\* C19: an event for an ordinary node changes the member lists of the
\* previous owner and the new owner only, and the position or size of no
\* node other than the moved node, those two grids and their members.
C19_BoundedSideEffects ==
    AfterNodeEvent =>
        LET affected == {current_parent, target_parent} \ {None}
            members == {n \in Ordinary : \E d \in affected :
                            \/ InSeq(n, snap_nodes[d])
                            \/ InSeq(n, before.snap_nodes[d])}
            touched == {call.node} \cup affected \cup members
        IN  /\ \A d \in DateNodes \ affected :
                   snap_nodes[d] = before.snap_nodes[d]
            /\ Cardinality({d \in DateNodes :
                                snap_nodes[d] # before.snap_nodes[d]}) <= 2
            /\ \A n \in Nodes \ touched :
                   pos[n] = before.pos[n] /\ width[n] = before.width[n]
            /\ \A d \in DateNodes \ touched : height[d] = before.height[d]

C19_Witness ==
    /\ AfterNodeEvent
    /\ current_parent # None /\ target_parent # None
    /\ current_parent # target_parent
    /\ snap_nodes[current_parent] # before.snap_nodes[current_parent]
    /\ snap_nodes[target_parent] # before.snap_nodes[target_parent]
    /\ \E n \in Ordinary \ {call.node} : \E d \in DateNodes : InSeq(n, snap_nodes[d])

\* C20: no call of handle_node_moved, and no layout pass inside it, is left
\* through an exception.
C20_NeverRaises == ~raised

\* C21: a call of handle_node_moved that is left by an exception leaves
\* every member list, the grids' widths and heights, and the nodes'
\* positions and widths as they were when the call started.
C21_FailurePreservesState ==
    (AfterEvent /\ raised) => SameAsBefore

\* C22: a call of the entry point with a null graph or a null node changes
\* no member list, note, position, width or height, and does not raise.
C22_InvalidInputNoOp ==
    call.op = "handle_node_moved_invalid"
    => pc = "idle" /\ SameAsBefore /\ note = before.note /\ ~raised

C22_Witness ==
    /\ call.op = "handle_node_moved_invalid"
    /\ \E d \in DateNodes : LiveMembers(snap_nodes[d]) # <<>>

\* C23: every grid's width and height and every ordinary node's width is
\* non-negative in every reachable state.
C23_NonNegativeGeometry ==
    /\ \A n \in Nodes \cap live : width[n] >= 0
    /\ \A d \in DateNodes \cap live : height[d] >= 0

\* C24: after a completed layout pass of a grid without live members (its
\* list empty, or every id in it stale) the grid's height is MIN_HEIGHT and
\* its member list is empty.
C24_EmptyGridShrinks ==
    AfterEvent =>
        \A g \in DateNodes :
            (InSeq(g, passes) /\ LiveMembers(snap_nodes[g]) = <<>>)
            => height[g] = MIN_HEIGHT /\ snap_nodes[g] = <<>>

C24_Witness ==
    /\ AfterEvent
    /\ \E g \in DateNodes :
           /\ InSeq(g, passes)
           /\ before.snap_nodes[g] # <<>>
           /\ LiveMembers(before.snap_nodes[g]) = <<>>
           /\ snap_nodes[g] = <<>>

\* C25: after an event, the note of every grid the event changed or laid
\* out lists exactly the grid's live members, once each, from top to bottom,
\* and shows the 'none' text exactly when the member list is empty.
C25_MembershipSummary ==
    AfterEvent =>
        \A d \in EventGrids :
            /\ note[d].none <=> (snap_nodes[d] = <<>>)
            /\ ~note[d].none
               => NoteNames(d) = SortByY(LiveMembers(snap_nodes[d]))

\* C26: after the layout pass of a moved grid over at least one live member
\* the grid's width is the width the top-most member had at the start of the
\* pass, and every member's width is that width minus 2 * H_MARGIN.
C26_WidthFitting ==
    LET g == call.node
        ms == LiveMembers(before.snap_nodes[g])
    IN  (AfterGridEvent /\ ms # <<>>)
        => /\ width[g] = before.width[FirstByYBefore(ms)]
           /\ \A i \in 1..Len(ms) : width[ms[i]] = width[g] - 2 * H_MARGIN

\* C27: the snap test a call applies accepts a node exactly when the point
\* at the node's own horizontal centre (x + half the node's width) and 30
\* below its top edge lies in the grid's snap rectangle, bounds included.
C27_SnapTestUsesNodeCentre ==
    AfterNodeEvent =>
        \A d \in DateNodes \cap live :
            WasInSnapArea(d, call.node) <=> CentreWasInSnapArea(d, call.node)

C29_Termination == (pc # "idle") ~> (pc = "idle")

C29_Witness ==
    /\ AfterEvent /\ raised
    /\ \E d \in DateNodes : Len(LiveMembers(snap_nodes[d])) >= 2

\* C30: between events every live member of a grid that the last event
\* moved, left or entered is at the grid's
\* x + H_MARGIN and at or below the grid's y + SNAP_AREA_HEIGHT + V_SPACING,
\* no two live members of a grid have the same y, and a node adopted through
\* the snap area is the top-most member.
C30_MemberPlacement ==
    AfterEvent =>
        \A d \in (DateNodes \cap live) \cap {call.node, current_parent, target_parent} :
            LET ms == {n \in Ordinary \cap live : InSeq(n, snap_nodes[d])}
            IN  /\ \A n \in ms :
                       /\ pos[n].x = pos[d].x + H_MARGIN
                       /\ pos[n].y >= pos[d].y + SNAP_AREA_HEIGHT + V_SPACING
                /\ \A n1, n2 \in ms : n1 # n2 => pos[n1].y # pos[n2].y
                /\ ( /\ call.node \in ms
                     /\ ~InSeq(call.node, before.snap_nodes[d]) )
                   => \A n \in ms \ {call.node} : pos[call.node].y < pos[n].y

====
